---- MODULE Spec2Model ----
(***************************************************************************)
(* Long-term memory of the picoclaw agent: the cold storage (chunk archive *)
(* and its in-memory index, pkg/agent/cold_storage.go), the retrieve_chunk *)
(* tool (pkg/tools) and the rolling-summary compression that drives them.  *)
(*                                                                         *)
(* Representation.  A Go string is a sequence of one-character strings;    *)
(* BadByte stands for a byte that is not valid UTF-8 and ReplacementChar   *)
(* for the rune U+FFFD.  A chunk ID is such a sequence.  The storage       *)
(* directory is `files` (the <id>.json.gz entries) and `tmpFiles` (the     *)
(* chunk-*.tmp entries).  Every goroutine that calls into the archive is a *)
(* process p with a program counter pc[p].                                 *)
(*                                                                         *)
(* Environment.  Writes may fail at every step of SaveChunk, as the code   *)
(* handles it.  The directory stays listable and a file that was renamed   *)
(* into place stays readable; nothing but this program writes to it while  *)
(* it runs.  RebuildSpec and RetrieveSpec start over a directory that also *)
(* holds entries that are not chunk files.                                 *)
(***************************************************************************)
EXTENDS Integers, Sequences, FiniteSets, TLC

\* ------------------------------------------------------------------
\* Bounds of the model
\* ------------------------------------------------------------------

\* goroutines calling into the archive concurrently
NumProcs == 2

\* number of distinct 4-byte digest prefixes the abstract SHA-256 takes
IdSpace == 2

\* operations started in one run
MaxOps == 3

\* process restarts (NewColdStorage on the same directory) in one run
MaxRestarts == 1

\* turns driven on the session
MaxTurns == 3

\* elements of the longest list a caller of ListRefs builds
MaxOut == 2

\* CompressionCfg of the rolling-summary tests
ChunkSizeTokens == 1

MinChunkMessages == 2

ContinuityBuffer == 1

Procs == 1..NumProcs

\* readings of the nanosecond clock: enough of them for every digest prefix
\* to be the digest of some reading
Nanos == 0..(IdSpace - 1)

\* ------------------------------------------------------------------
\* Strings, IDs and records
\* ------------------------------------------------------------------

BadByte == "xFF"

ReplacementChar == "uFFFD"

SessionSeq == <<"session1", "session2">>

Sessions == {SessionSeq[i] : i \in 1..Len(SessionSeq)}

SessionCode(s) == CHOOSE i \in 1..Len(SessionSeq) : SessionSeq[i] = s

HexDigits == <<"0", "1", "2", "3", "4", "5", "6", "7", "8", "9", "a", "b", "c", "d", "e", "f">>

\* fmt.Sprintf("%x", b) of one byte of a byte slice: two lowercase digits
HexByte(b) == <<HexDigits[(b \div 16) + 1], HexDigits[(b % 16) + 1]>>

RECURSIVE FormatHex(_)
\* fmt.Sprintf("%x", h[:4]): the bytes in order, two digits each
FormatHex(bs) == IF bs = <<>> THEN <<>> ELSE HexByte(Head(bs)) \o FormatHex(Tail(bs))

\* sha256.Sum256([]byte(sessionKey:counter:nanos))[:4].  The digest is a
\* deterministic function of the three inputs with finitely many values, so
\* distinct inputs may share a prefix; here it takes IdSpace values.
Sum256Prefix(sessionKey, counter, nanos) ==
    LET k == (SessionCode(sessionKey) + counter + nanos) % IdSpace
    IN  <<(17 * k) % 256, (k * k + 9) % 256, 255 - k, (5 * k) % 256>>

ChunkIDs == {FormatHex(Sum256Prefix(SessionSeq[1], 0, n)) : n \in 0..(IdSpace - 1)}

HexRank(c) == CHOOSE i \in 1..Len(HexDigits) : HexDigits[i] = c

RECURSIVE NameLess(_, _)
\* byte-wise comparison of two file names, the order os.ReadDir sorts by
NameLess(a, b) ==
    IF a = <<>> THEN b # <<>>
    ELSE IF b = <<>> THEN FALSE
    ELSE IF Head(a) = Head(b) THEN NameLess(Tail(a), Tail(b))
    ELSE HexRank(Head(a)) < HexRank(Head(b))

RoleUser == <<"u", "s", "e", "r">>

RoleAssistant == <<"a", "s", "s", "i", "s", "t", "a", "n", "t">>

RoleTool == <<"t", "o", "o", "l">>

RoleSystem == <<"s", "y", "s", "t", "e", "m">>

Roles == {RoleUser, RoleAssistant, RoleTool, RoleSystem}

\* time.Date(2024, 1, 1, 12, 0, 0, 0, time.UTC); mono: the value carries a
\* monotonic clock reading, as every time.Now() does
TestTime == [year |-> 2024, month |-> 1, day |-> 1, hour |-> 12, minute |-> 0, mono |-> FALSE]

NowTime == [TestTime EXCEPT !.mono = TRUE]

\* a time whose year json.Marshal refuses
FarTime == [TestTime EXCEPT !.year = 10000]

Msg(role, content) == [Role |-> role, Content |-> content]

TestMessages == <<Msg(RoleUser, <<"H", "i">>), Msg(RoleAssistant, <<"H", "o">>)>>

\* the messages of TestColdStorage_RetrieveChunkToolMessagesExcluded, and a
\* system message
ToolMessages ==
    <<Msg(RoleUser, <<"Q">>), Msg(RoleAssistant, <<"c">>), Msg(RoleTool, <<"r">>),
      Msg(RoleSystem, <<"s">>)>>

\* a message whose content is not valid UTF-8
BadMessages == <<Msg(RoleTool, <<"r", BadByte>>)>>

IndexSummaries == {<<"A">>, <<"B">>}

\* the records the archive operations are called with
IndexRecords ==
    [ID : ChunkIDs, SessionKey : Sessions, MsgRange : {<<0, 2>>},
     CreatedAt : {TestTime}, Summary : IndexSummaries, Messages : {TestMessages}]

\* the shapes of the records the round trip is tried with: the record of
\* TestColdStorage_SaveLoad, one with tool and system messages and a time
\* from time.Now(), one whose time cannot be marshalled, two with strings
\* that are not valid UTF-8, and an empty one
RichShapes ==
    {[MsgRange |-> <<0, 2>>, CreatedAt |-> TestTime, Summary |-> <<"A">>, Messages |-> TestMessages],
     [MsgRange |-> <<3, 7>>, CreatedAt |-> NowTime, Summary |-> <<"B">>, Messages |-> ToolMessages],
     [MsgRange |-> <<0, 2>>, CreatedAt |-> FarTime, Summary |-> <<"A">>, Messages |-> TestMessages],
     [MsgRange |-> <<0, 2>>, CreatedAt |-> TestTime, Summary |-> <<"A", BadByte>>, Messages |-> TestMessages],
     [MsgRange |-> <<3, 7>>, CreatedAt |-> NowTime, Summary |-> <<>>, Messages |-> BadMessages],
     [MsgRange |-> <<0, 0>>, CreatedAt |-> TestTime, Summary |-> <<>>, Messages |-> <<>>]}

\* the records the round trip is tried with
RichRecords ==
    {[ID |-> id, SessionKey |-> s, MsgRange |-> x.MsgRange, CreatedAt |-> x.CreatedAt,
      Summary |-> x.Summary, Messages |-> x.Messages] :
        id \in ChunkIDs, s \in Sessions, x \in RichShapes}

\* ------------------------------------------------------------------
\* Encoding of a chunk file
\* ------------------------------------------------------------------

\* encoding/json writes a string coerced to valid UTF-8: every invalid byte
\* becomes U+FFFD
ToValidUTF8(s) == [i \in DOMAIN s |-> IF s[i] = BadByte THEN ReplacementChar ELSE s[i]]

\* Time.MarshalJSON fails outside the years 0..9999
MarshalFails(record) == record.CreatedAt.year \notin 0..9999

\* json.Marshal(record): the JSON document of a ChunkRecord
Marshal(record) ==
    [id |-> ToValidUTF8(record.ID),
     session_key |-> record.SessionKey,
     msg_range |-> record.MsgRange,
     created_at |-> [year |-> record.CreatedAt.year, month |-> record.CreatedAt.month,
                     day |-> record.CreatedAt.day, hour |-> record.CreatedAt.hour,
                     minute |-> record.CreatedAt.minute],
     summary |-> ToValidUTF8(record.Summary),
     messages |-> [i \in DOMAIN record.Messages |->
                     [role |-> ToValidUTF8(record.Messages[i].Role),
                      content |-> ToValidUTF8(record.Messages[i].Content)]]]

\* a faulty Decode: the tool messages are lost
DecodeDropTool(doc) ==
    [ID |-> doc.id, SessionKey |-> doc.session_key, MsgRange |-> doc.msg_range,
     CreatedAt |-> [year |-> doc.created_at.year, month |-> doc.created_at.month,
                    day |-> doc.created_at.day, hour |-> doc.created_at.hour,
                    minute |-> doc.created_at.minute, mono |-> FALSE],
     Summary |-> doc.summary,
     Messages |-> SelectSeq([i \in DOMAIN doc.messages |->
                               Msg(doc.messages[i].role, doc.messages[i].content)],
                            LAMBDA m : m.Role # RoleTool)]

\* json.NewDecoder(gz).Decode(&record)
Decode(doc) ==
    [ID |-> doc.id,
     SessionKey |-> doc.session_key,
     MsgRange |-> doc.msg_range,
     CreatedAt |-> [year |-> doc.created_at.year, month |-> doc.created_at.month,
                    day |-> doc.created_at.day, hour |-> doc.created_at.hour,
                    minute |-> doc.created_at.minute, mono |-> FALSE],
     Summary |-> doc.summary,
     Messages |-> [i \in DOMAIN doc.messages |->
                     Msg(doc.messages[i].role, doc.messages[i].content)]]

NoFile == [kind |-> "none"]

\* the content of a file written through gzip.NewWriter
Gzip(data) == [kind |-> "gz", data |-> data]

\* what else the directory may hold under the name <id>.json.gz: a file that
\* is not gzip data, a gzip file that is not the JSON of a record (no
\* document), a file that cannot be opened, a subdirectory
NotGzip == [kind |-> "raw"]

NotJSON == Gzip(<<>>)

Unreadable == [kind |-> "locked"]

SubDir == [kind |-> "dir"]

\* ------------------------------------------------------------------
\* State
\* ------------------------------------------------------------------

VARIABLES
    files,          \* storage directory: chunk ID -> content of <id>.json.gz, or NoFile
    tmpFiles,       \* storage directory: the chunk-*.tmp files present
    counters,       \* ColdStorage.counters (a missing key reads 0)
    refs,           \* ColdStorage.refs (a missing key reads the empty list)
    mu,             \* ColdStorage.mu: 0 when free, else the process holding it
    pc,             \* where each process is
    rec,            \* SaveChunk: the record argument
    tmpPath,        \* SaveChunk: the temporary file, 0 when none
    entries,        \* RebuildIndex: the directory entries still to visit
    ret,            \* the call that returned last: its number, caller, argument, result
    opsLeft,        \* calls that may still be started
    restartsLeft,   \* restarts that may still happen
    archived,       \* history: per session, the refs of the chunks this process renamed into place
    issued,         \* history: per session, the counter the index was built with and the
                    \* counters NextChunkID has read since
    rebuilt,        \* history: RebuildIndex was called in this process
    writer,         \* history: the index of the previous process and the records it had
                    \* renamed but not indexed, until the first call of this one
    coldStorage,    \* AgentInstance.ColdStorage is not nil
    toolsRegistry,  \* AgentInstance.Tools: the tools registered, empty while no agent is built
    history,        \* the session's history
    rollingSummary, \* the session's rolling summary
    turn,           \* the turns: how many began, where the current one is, its locals
    added,          \* history: every message ever added to the session, in order
    out,            \* the list a caller of ListRefs kept, and the session it asked for
    fnCalls,        \* history: the calls of retrieveFn the last Execute made
    clock           \* the wall clock, in minutes after TestTime

dirVars == <<files, tmpFiles>>

indexVars == <<counters, refs, mu>>

saveVars == <<rec, tmpPath>>

agentVars == <<coldStorage, toolsRegistry, history, rollingSummary, turn, added, out, fnCalls, clock>>

vars == <<files, tmpFiles, counters, refs, mu, pc, rec, tmpPath, entries, ret, opsLeft,
          restartsLeft, archived, issued, rebuilt, writer, coldStorage, toolsRegistry, history, rollingSummary, turn,
          added, out, fnCalls, clock>>

NoRecord == [ID |-> <<>>]

NoReturn == [n |-> 0, p |-> 0, op |-> "none", arg |-> <<>>, err |-> "", val |-> <<>>]

Return(p, op, arg, err, val) == [n |-> 0, p |-> p, op |-> op, arg |-> arg, err |-> err, val |-> val]

TmpNames == 1..(NumProcs * (MaxRestarts + 1))

EmptyCounters == [s \in Sessions |-> 0]

EmptyRefs == [s \in Sessions |-> <<>>]

\* no counter read yet by NextChunkID since the index was built with counters cs
NoneIssued(cs) == [s \in Sessions |-> [from |-> cs[s], seen |-> <<>>]]

\* the tools NewAgentInstance registers in every agent, by their constructors
BaseTools ==
    {"NewReadFileTool", "NewWriteFileTool", "NewListDirTool", "NewExecToolWithConfig",
     "NewEditFileTool", "NewAppendFileTool"}

\* RetrieveChunkTool.Name()
RetrieveChunkName == "retrieve_chunk"

\* a faulty Registered: retrieve_chunk is registered whether or not there
\* is an archive
RegisteredAlways(cs) == BaseTools \cup {RetrieveChunkName}

\* the registry NewAgentInstance fills: retrieve_chunk only if cs != nil
Registered(cs) == BaseTools \cup (IF cs THEN {RetrieveChunkName} ELSE {})

NoWriter ==
    [live |-> FALSE, quiet |-> FALSE, plain |-> FALSE, refs |-> EmptyRefs,
     archived |-> EmptyRefs, pending |-> {}]

\* A slice: the array it points into and the elements it shows
NilSlice == [arr |-> "nil", elems |-> <<>>]

\* a faulty CopyOut: the slice of the index itself is returned
ShareOut(list) ==
    IF Len(list) = 0 THEN NilSlice ELSE [arr |-> "refs", elems |-> list]

\* ListRefs, lines 201-208: nil for an empty list, else a new array of
\* the same length with the refs copied into it
CopyOut(list) ==
    IF Len(list) = 0 THEN NilSlice ELSE [arr |-> "out", elems |-> list]

NoOut == [session |-> "", slice |-> NilSlice]

NoTurn ==
    [pc |-> "idle", turns |-> 0, n |-> 0, end |-> 0, summary |-> <<>>, before |-> <<>>,
     cause |-> "", err |-> ""]

\* NewColdStorage on an empty directory
ArchiveInit ==
    /\ files = [id \in ChunkIDs |-> NoFile]
    /\ tmpFiles = {}
    /\ counters = EmptyCounters
    /\ refs = EmptyRefs
    /\ mu = 0
    /\ pc = [p \in Procs |-> "idle"]
    /\ rec = [p \in Procs |-> NoRecord]
    /\ tmpPath = [p \in Procs |-> 0]
    /\ entries = [p \in Procs |-> <<>>]
    /\ ret = NoReturn
    /\ opsLeft = MaxOps
    /\ restartsLeft = MaxRestarts
    /\ archived = EmptyRefs
    /\ issued = NoneIssued(EmptyCounters)
    /\ rebuilt = FALSE
    /\ writer = NoWriter
    /\ history = <<>>
    /\ rollingSummary = <<>>
    /\ turn = NoTurn
    /\ added = <<>>
    /\ out = NoOut
    /\ fnCalls = <<>>
    /\ clock = 0

\* an agent whose archive was constructed
Init == ArchiveInit /\ coldStorage = TRUE /\ toolsRegistry = Registered(TRUE)

\* ------------------------------------------------------------------
\* Directory listing and loading
\* ------------------------------------------------------------------

\* a directory entry named <id>.json.gz: a file, or a subdirectory
ChunkEntry(id, isDir) == [suffix |-> ".json.gz", id |-> id, tmp |-> 0, isDir |-> isDir]

TmpEntry(n) == [suffix |-> ".tmp", id |-> <<>>, tmp |-> n, isDir |-> FALSE]

RECURSIVE SortedIDs(_)
\* the IDs of a set in ascending order of file name
SortedIDs(S) ==
    IF S = {} THEN <<>>
    ELSE LET m == CHOOSE x \in S : \A y \in S \ {x} : NameLess(x, y)
         IN  <<m>> \o SortedIDs(S \ {m})

RECURSIVE SortedNats(_)
SortedNats(S) ==
    IF S = {} THEN <<>>
    ELSE LET m == CHOOSE x \in S : \A y \in S : x <= y
         IN  <<m>> \o SortedNats(S \ {m})

\* a faulty ReadDir: the chunk files are listed in descending order of name
ReadDirUnsorted(fs, tmps) ==
    LET ids == SortedIDs({id \in ChunkIDs : fs[id] # NoFile})
        ts == SortedNats(tmps)
    IN  [i \in 1..Len(ids) |-> ChunkEntry(ids[Len(ids) + 1 - i], fs[ids[Len(ids) + 1 - i]] = SubDir)]
            \o [i \in 1..Len(ts) |-> TmpEntry(ts[i])]

\* os.ReadDir(cs.dir): all entries sorted by file name.  The chunk files are
\* in ascending order of ID; the temporary files are listed after them (where
\* they sort among the chunk files does not matter: RebuildIndex skips them).
ReadDir(fs, tmps) ==
    LET ids == SortedIDs({id \in ChunkIDs : fs[id] # NoFile})
        ts == SortedNats(tmps)
    IN  [i \in 1..Len(ids) |-> ChunkEntry(ids[i], fs[ids[i]] = SubDir)]
            \o [i \in 1..Len(ts) |-> TmpEntry(ts[i])]

\* loadChunkLocked(id): the record, or the step that failed
loadChunkLocked(fs, id) ==
    IF id \notin ChunkIDs \/ fs[id] \in {NoFile, Unreadable}
    THEN [err |-> "open", record |-> NoRecord]
    ELSE IF fs[id].kind # "gz" THEN [err |-> "gzip reader", record |-> NoRecord]
    ELSE IF fs[id].data = <<>> THEN [err |-> "decode", record |-> NoRecord]
    ELSE [err |-> "", record |-> Decode(fs[id].data)]

ChunkRef(id, summary) == [ID |-> id, Summary |-> summary]

\* a faulty AppendRef: the new ref goes to the front of the list
AppendRefFront(rs, key, ref) == [rs EXCEPT ![key] = <<ref>> \o @]

\* a faulty AppendRef: the ref is not appended
AppendRefDropped(rs, key, ref) == rs

\* cs.refs[key] = append(cs.refs[key], ref)
AppendRef(rs, key, ref) == [rs EXCEPT ![key] = Append(@, ref)]

\* a faulty IndexEntry: the counter is seeded but the ref is not appended
IndexEntryNoRef(index, fs, entry) ==
    IF entry.isDir \/ entry.suffix # ".json.gz" THEN index
    ELSE LET got == loadChunkLocked(fs, entry.id)
         IN  IF got.err # "" THEN index
             ELSE [index EXCEPT !.counters[got.record.SessionKey] = @ + 1]

\* a faulty IndexEntry: a file that fails to load empties the index
IndexEntryDropOnError(index, fs, entry) ==
    IF entry.isDir \/ entry.suffix # ".json.gz" THEN index
    ELSE LET got == loadChunkLocked(fs, entry.id)
         IN  IF got.err # "" THEN [counters |-> EmptyCounters, refs |-> EmptyRefs]
             ELSE [counters |-> [index.counters EXCEPT ![got.record.SessionKey] = @ + 1],
                   refs |-> AppendRef(index.refs, got.record.SessionKey,
                                      ChunkRef(got.record.ID, got.record.Summary))]

\* the body of RebuildIndex's loop for one directory entry
IndexEntry(index, fs, entry) ==
    IF entry.isDir \/ entry.suffix # ".json.gz" THEN index
    ELSE LET got == loadChunkLocked(fs, entry.id)
         IN  IF got.err # "" THEN index
             ELSE [counters |-> [index.counters EXCEPT ![got.record.SessionKey] = @ + 1],
                   refs |-> AppendRef(index.refs, got.record.SessionKey,
                                      ChunkRef(got.record.ID, got.record.Summary))]

RECURSIVE IndexAll(_, _, _)
\* RebuildIndex's loop over a whole listing
IndexAll(index, fs, es) ==
    IF es = <<>> THEN index ELSE IndexAll(IndexEntry(index, fs, Head(es)), fs, Tail(es))

\* ------------------------------------------------------------------
\* Operations of the archive
\* ------------------------------------------------------------------

\* a call returns r to process p
Finish(p, r) ==
    /\ pc' = [pc EXCEPT ![p] = "idle"]
    /\ ret' = [r EXCEPT !.n = ret.n + 1]

\* A call starts on an idle process.  The processes are interchangeable, so
\* a call starts on the first idle one.
Start(p) ==
    /\ pc[p] = "idle"
    /\ \A q \in Procs : q < p => pc[q] # "idle"
    /\ opsLeft > 0
    /\ opsLeft' = opsLeft - 1
    /\ writer' = NoWriter

\* a faulty RemoveTmp: the temporary file is left behind
KeepTmp(p) ==
    /\ tmpFiles' = tmpFiles
    /\ tmpPath' = [tmpPath EXCEPT ![p] = 0]

\* the deferred cleanup of SaveChunk: os.Remove(tmpPath)
RemoveTmp(p) ==
    /\ tmpFiles' = tmpFiles \ {tmpPath[p]}
    /\ tmpPath' = [tmpPath EXCEPT ![p] = 0]

\* a faulty Increment: the update is lost, as an increment outside the mutex
\* can be
IncrementLost(cs, sessionKey) == cs

\* cs.counters[sessionKey]++
Increment(cs, sessionKey) == [cs EXCEPT ![sessionKey] = @ + 1]

\* the ID NextChunkID returns for the counter it read and the clock reading
ChunkIDOf(sessionKey, counter, nanos) == FormatHex(Sum256Prefix(sessionKey, counter, nanos))

\* NextChunkID: the counter is incremented and read under the mutex, the
\* clock is read and the digest taken after it is released
NextChunkID(p, sessionKey) ==
    /\ Start(p)
    /\ mu = 0
    /\ \E nanos \in Nanos :
          /\ counters' = Increment(counters, sessionKey)
          /\ Finish(p, Return(p, "NextChunkID", sessionKey, "",
                              ChunkIDOf(sessionKey, counters'[sessionKey], nanos)))
    /\ issued' = [issued EXCEPT ![sessionKey].seen = Append(@, counters'[sessionKey])]
    /\ UNCHANGED <<dirVars, refs, mu, saveVars, entries, restartsLeft, archived, rebuilt,
                   agentVars>>

\* SaveChunk returns err ("" for nil) to its caller
SaveChunkReturn(p, err) ==
    /\ Finish(p, Return(p, "SaveChunk", rec[p], err, <<>>))
    /\ rec' = [rec EXCEPT ![p] = NoRecord]

\* SaveChunk, lines 117-126: json.Marshal and os.CreateTemp
SaveChunkEnter(p, record) ==
    IF MarshalFails(record)
    THEN /\ Finish(p, Return(p, "SaveChunk", record, "marshal", <<>>))
         /\ UNCHANGED <<tmpFiles, saveVars>>
    ELSE \/ /\ Finish(p, Return(p, "SaveChunk", record, "create temp", <<>>))
            /\ UNCHANGED <<tmpFiles, saveVars>>
         \/ \E n \in TmpNames \ tmpFiles :
               /\ \A m \in TmpNames \ tmpFiles : n <= m
               /\ tmpFiles' = tmpFiles \cup {n}
               /\ tmpPath' = [tmpPath EXCEPT ![p] = n]
               /\ rec' = [rec EXCEPT ![p] = record]
               /\ pc' = [pc EXCEPT ![p] = "save_write"]
               /\ UNCHANGED ret

\* a call of SaveChunk with one of `records`
SaveChunkCall(p, records) ==
    /\ Start(p)
    /\ \E record \in records : SaveChunkEnter(p, record)
    /\ UNCHANGED <<files, indexVars, entries, restartsLeft, archived, issued, rebuilt, agentVars>>

\* SaveChunk, lines 135-150: gzip write, gzip close, fsync, close; a failure
\* of any of them returns the error and the deferred cleanup removes the file
SaveChunkWrite(p) ==
    /\ pc[p] = "save_write"
    /\ \/ /\ pc' = [pc EXCEPT ![p] = "save_rename"]
          /\ UNCHANGED <<tmpFiles, saveVars, ret>>
       \/ /\ RemoveTmp(p)
          /\ SaveChunkReturn(p, "write")
    /\ UNCHANGED <<files, indexVars, entries, opsLeft, restartsLeft, archived, issued, rebuilt, writer,
                   agentVars>>

\* os.Rename(tmpPath, dest): dest now holds the written data, replacing what
\* it held
Rename(fs, id, data) == [fs EXCEPT ![id] = Gzip(data)]

\* SaveChunk, lines 152-156: the rename, and the cleanup when it fails
SaveChunkRename(p) ==
    /\ pc[p] = "save_rename"
    /\ \/ /\ files' = Rename(files, rec[p].ID, Marshal(rec[p]))
          /\ tmpFiles' = tmpFiles \ {tmpPath[p]}
          /\ tmpPath' = [tmpPath EXCEPT ![p] = 0]
          /\ pc' = [pc EXCEPT ![p] = "save_index"]
          /\ archived' = [archived EXCEPT ![rec[p].SessionKey] =
                             Append(@, [ID |-> rec[p].ID, Summary |-> rec[p].Summary])]
          /\ UNCHANGED <<rec, ret>>
       \/ /\ RemoveTmp(p)
          /\ SaveChunkReturn(p, "rename")
          /\ UNCHANGED <<files, archived>>
    /\ UNCHANGED <<indexVars, entries, opsLeft, restartsLeft, issued, rebuilt, writer,
                   agentVars>>

\* SaveChunk, lines 158-166: the ref is appended under the mutex
SaveChunkIndex(p) ==
    /\ pc[p] = "save_index"
    /\ mu = 0
    /\ refs' = AppendRef(refs, rec[p].SessionKey, ChunkRef(rec[p].ID, rec[p].Summary))
    /\ SaveChunkReturn(p, "")
    /\ UNCHANGED <<dirVars, counters, mu, tmpPath, entries, opsLeft, restartsLeft, archived, issued,
                   rebuilt, writer, agentVars>>

\* LoadChunk, lines 171-172: the mutex is taken, and kept until the return
LoadChunkLock(p) ==
    /\ Start(p)
    /\ mu = 0
    /\ mu' = p
    /\ pc' = [pc EXCEPT ![p] = "load"]
    /\ UNCHANGED <<dirVars, counters, refs, saveVars, entries, ret, restartsLeft, archived, issued,
                   rebuilt, agentVars>>

\* a faulty LoadChunk: a file that fails to load is removed
LoadChunkRemoving(p) ==
    /\ pc[p] = "load"
    /\ mu' = 0
    /\ \E id \in ChunkIDs :
          LET got == loadChunkLocked(files, id)
          IN  /\ Finish(p, Return(p, "LoadChunk", id, got.err, got.record))
              /\ files' = IF got.err # "" THEN [files EXCEPT ![id] = NoFile] ELSE files
    /\ UNCHANGED <<tmpFiles, counters, refs, saveVars, entries, opsLeft, restartsLeft,
                   archived, issued, rebuilt, writer, agentVars>>

\* LoadChunk, lines 173-174: loadChunkLocked reads the file of the id the
\* call was given while the mutex is held; the deferred Unlock runs at the
\* return
LoadChunk(p) ==
    /\ pc[p] = "load"
    /\ mu' = 0
    /\ \E id \in ChunkIDs :
          LET got == loadChunkLocked(files, id)
          IN  Finish(p, Return(p, "LoadChunk", id, got.err, got.record))
    /\ UNCHANGED <<dirVars, counters, refs, saveVars, entries, opsLeft, restartsLeft,
                   archived, issued, rebuilt, writer, agentVars>>

\* ListRefs: a copy of the session's list, taken under the mutex
ListRefs(p) ==
    /\ Start(p)
    /\ mu = 0
    /\ \E sessionKey \in Sessions :
          Finish(p, Return(p, "ListRefs", sessionKey, "", CopyOut(refs[sessionKey])))
    /\ UNCHANGED <<dirVars, indexVars, saveVars, entries, restartsLeft, archived, issued, rebuilt,
                   agentVars>>

\* a faulty RebuildBegin: the maps are not reset before the scan
RebuildBeginNoReset(p) ==
    /\ Start(p)
    /\ mu = 0
    /\ mu' = p
    /\ entries' = [entries EXCEPT ![p] = ReadDir(files, tmpFiles)]
    /\ pc' = [pc EXCEPT ![p] = "rebuild"]
    /\ rebuilt' = TRUE
    /\ UNCHANGED <<dirVars, counters, refs, saveVars, ret, restartsLeft, archived, issued, agentVars>>

\* RebuildIndex, lines 61-70: lock, list the directory, reset both maps
RebuildBegin(p) ==
    /\ Start(p)
    /\ mu = 0
    /\ mu' = p
    /\ entries' = [entries EXCEPT ![p] = ReadDir(files, tmpFiles)]
    /\ counters' = EmptyCounters
    /\ refs' = EmptyRefs
    /\ pc' = [pc EXCEPT ![p] = "rebuild"]
    /\ rebuilt' = TRUE
    /\ UNCHANGED <<dirVars, saveVars, ret, restartsLeft, archived, issued, agentVars>>

\* RebuildIndex, lines 72-92: one iteration of the loop
RebuildEntry(p) ==
    /\ pc[p] = "rebuild"
    /\ entries[p] # <<>>
    /\ LET index == IndexEntry([counters |-> counters, refs |-> refs], files, Head(entries[p]))
       IN  /\ counters' = index.counters
           /\ refs' = index.refs
    /\ entries' = [entries EXCEPT ![p] = Tail(@)]
    /\ UNCHANGED <<dirVars, mu, pc, saveVars, ret, opsLeft, restartsLeft, archived, issued, rebuilt,
                   writer, agentVars>>

\* RebuildIndex, lines 94-99: the loop is over, unlock and return nil
RebuildEnd(p) ==
    /\ pc[p] = "rebuild"
    /\ entries[p] = <<>>
    /\ mu' = 0
    /\ Finish(p, Return(p, "RebuildIndex", <<>>, "", [counters |-> counters, refs |-> refs]))
    /\ issued' = NoneIssued(counters)
    /\ UNCHANGED <<dirVars, counters, refs, saveVars, entries, opsLeft, restartsLeft, archived,
                   rebuilt, writer, agentVars>>

\* The process ends (wherever its goroutines are) and a new one calls
\* NewColdStorage on the same directory: fresh maps, then RebuildIndex, before
\* anything else can reach the archive.
NewColdStorage ==
    /\ restartsLeft > 0
    /\ restartsLeft' = restartsLeft - 1
    /\ LET index == IndexAll([counters |-> EmptyCounters, refs |-> EmptyRefs],
                             files, ReadDir(files, tmpFiles))
       IN  /\ counters' = index.counters
           /\ refs' = index.refs
    /\ mu' = 0
    /\ pc' = [p \in Procs |-> "idle"]
    /\ rec' = [p \in Procs |-> NoRecord]
    /\ tmpPath' = [p \in Procs |-> 0]
    /\ entries' = [p \in Procs |-> <<>>]
    /\ ret' = NoReturn
    /\ archived' = EmptyRefs
    /\ issued' = NoneIssued(counters')
    /\ rebuilt' = FALSE
    /\ writer' = [live |-> TRUE,
                  quiet |-> \A p \in Procs : pc[p] = "idle",
                  plain |-> restartsLeft = MaxRestarts /\ ~rebuilt,
                  refs |-> refs,
                  archived |-> archived,
                  pending |-> {rec[p] : p \in {q \in Procs : pc[q] = "save_index"}}]
    /\ UNCHANGED <<dirVars, opsLeft, agentVars>>

\* the steps of the archive's operations
ArchiveStep(p) ==
    \/ \E sessionKey \in Sessions : NextChunkID(p, sessionKey)
    \/ SaveChunkCall(p, IndexRecords)
    \/ SaveChunkWrite(p)
    \/ SaveChunkRename(p)
    \/ SaveChunkIndex(p)
    \/ LoadChunkLock(p)
    \/ LoadChunk(p)
    \/ ListRefs(p)
    \/ RebuildBegin(p)
    \/ RebuildEntry(p)
    \/ RebuildEnd(p)

\* Concurrent use of one archive by all processes
Next == (\E p \in Procs : ArchiveStep(p)) \/ NewColdStorage

Spec == Init /\ [][Next]_vars

\* One goroutine uses the archive: every call returns before the next starts
SeqNext == ArchiveStep(1) \/ NewColdStorage

SeqSpec == Init /\ [][SeqNext]_vars

\* What a directory entry named <id>.json.gz can be when the archive is
\* opened over a directory it did not write alone: nothing, a chunk file
\* (whose record may carry another ID than the file's name), a file that
\* is not gzip, a gzip file that is not JSON, a file that cannot be
\* opened, a sub-directory
DirContents ==
    {NoFile, NotGzip, NotJSON, Unreadable, SubDir} \cup {Gzip(Marshal(r)) : r \in IndexRecords}

\* An archive constructed over any such directory, with or without a
\* left-over temporary file
RebuildInit ==
    /\ files \in [ChunkIDs -> DirContents]
    /\ tmpFiles \in SUBSET {1}
    /\ LET index == IndexAll([counters |-> EmptyCounters, refs |-> EmptyRefs],
                             files, ReadDir(files, tmpFiles))
       IN  /\ counters = index.counters
           /\ refs = index.refs
    /\ mu = 0
    /\ pc = [p \in Procs |-> "idle"]
    /\ rec = [p \in Procs |-> NoRecord]
    /\ tmpPath = [p \in Procs |-> 0]
    /\ entries = [p \in Procs |-> <<>>]
    /\ ret = NoReturn
    /\ opsLeft = MaxOps
    /\ restartsLeft = MaxRestarts
    /\ archived = EmptyRefs
    /\ issued = NoneIssued(counters)
    /\ rebuilt = FALSE
    /\ writer = NoWriter
    /\ coldStorage = TRUE
    /\ toolsRegistry = Registered(TRUE)
    /\ history = <<>>
    /\ rollingSummary = <<>>
    /\ turn = NoTurn
    /\ added = <<>>
    /\ out = NoOut
    /\ fnCalls = <<>>
    /\ clock = 0

\* One goroutine rebuilds the index, any number of times, over restarts
RebuildNext ==
    \/ RebuildBegin(1)
    \/ RebuildEntry(1)
    \/ RebuildEnd(1)
    \/ NewColdStorage

RebuildSpec == RebuildInit /\ [][RebuildNext]_vars

\* the caller keeps the list ListRefs just returned
KeepRefs ==
    /\ pc[1] = "idle"
    /\ ret.op = "ListRefs"
    /\ out' = [session |-> ret.arg, slice |-> ret.val]
    /\ out' # out
    /\ UNCHANGED <<dirVars, indexVars, pc, saveVars, entries, ret, opsLeft, restartsLeft,
                   archived, issued, rebuilt, writer, coldStorage, toolsRegistry, history, rollingSummary, turn, added,
                   fnCalls, clock>>

\* a ref of the caller's own making
CallerRef == ChunkRef(<<"m", "i", "n", "e">>, <<>>)

\* the caller overwrites an element of the list it keeps; the write goes
\* to the array the slice points into, so it shows in the index when that
\* array is the index's own
OverwriteRef ==
    /\ pc[1] = "idle"
    /\ \E i \in 1..Len(out.slice.elems) :
          /\ out.slice.elems[i] # CallerRef
          /\ out' = [out EXCEPT !.slice.elems[i] = CallerRef]
          /\ IF out.slice.arr = "refs" /\ i <= Len(refs[out.session])
             THEN refs' = [refs EXCEPT ![out.session][i] = CallerRef]
             ELSE UNCHANGED refs
    /\ UNCHANGED <<dirVars, counters, mu, pc, saveVars, entries, ret, opsLeft, restartsLeft,
                   archived, issued, rebuilt, writer, coldStorage, toolsRegistry, history, rollingSummary, turn, added,
                   fnCalls, clock>>

\* the caller appends to the list it keeps: the array ListRefs made is
\* full (its capacity is its length), so append allocates a new one
AppendOut ==
    /\ pc[1] = "idle"
    /\ out.session # ""
    /\ Len(out.slice.elems) < MaxOut
    /\ out' = [out EXCEPT !.slice = [arr |-> "grown", elems |-> Append(@.elems, CallerRef)]]
    /\ UNCHANGED <<dirVars, indexVars, pc, saveVars, entries, ret, opsLeft, restartsLeft,
                   archived, issued, rebuilt, writer, coldStorage, toolsRegistry, history, rollingSummary, turn, added,
                   fnCalls, clock>>

\* One goroutine saves chunks and lists refs; its caller keeps a returned
\* list and writes to it
CopyNext ==
    \/ SaveChunkCall(1, IndexRecords)
    \/ SaveChunkWrite(1)
    \/ SaveChunkRename(1)
    \/ SaveChunkIndex(1)
    \/ ListRefs(1)
    \/ KeepRefs
    \/ OverwriteRef
    \/ AppendOut

CopySpec == Init /\ [][CopyNext]_vars

\* One goroutine saves records of every shape and loads them back
RoundTripNext ==
    \/ SaveChunkCall(1, RichRecords)
    \/ SaveChunkWrite(1)
    \/ SaveChunkRename(1)
    \/ SaveChunkIndex(1)
    \/ LoadChunkLock(1)
    \/ LoadChunk(1)

RoundTripSpec == Init /\ [][RoundTripNext]_vars

\* ------------------------------------------------------------------
\* The retrieve_chunk tool
\* ------------------------------------------------------------------

Digits == <<"0", "1", "2", "3", "4", "5", "6", "7", "8", "9">>

\* a number printed with two digits
Pad2(n) == <<Digits[((n \div 10) % 10) + 1], Digits[(n % 10) + 1]>>

\* a number printed with four digits
Pad4(n) == Pad2(n \div 100) \o Pad2(n % 100)

\* t.Format("2006-01-02 15:04")
FormatTime(t) ==
    Pad4(t.year) \o <<"-">> \o Pad2(t.month) \o <<"-">> \o Pad2(t.day) \o <<" ">>
        \o Pad2(t.hour) \o <<":">> \o Pad2(t.minute)

\* the three characters between the ID and the time in the format string of
\* formatChunkTranscript: U+00E2, U+20AC, U+201D
HeaderDash == <<"u00E2", "u20AC", "u201D">>

\* fmt.Fprintf(&sb, "%s: %s\n\n", msg.Role, msg.Content) for every message
RECURSIVE FormatMessages(_)
FormatMessages(msgs) ==
    IF msgs = <<>> THEN <<>>
    ELSE Head(msgs).Role \o <<":", " ">> \o Head(msgs).Content \o <<"\n", "\n">>
             \o FormatMessages(Tail(msgs))

formatChunkTranscript(record) ==
    <<"[", "A", "r", "c", "h", "i", "v", "e", "d", " ", "c", "h", "u", "n", "k", " ">>
        \o record.ID \o <<" ">> \o HeaderDash \o <<" ">> \o FormatTime(record.CreatedAt)
        \o <<"]", "\n", "\n">> \o FormatMessages(record.Messages)

\* the ASCII characters unicode.IsSpace holds for
WhiteSpace == {" ", "\t", "\n", "\r"}

\* strings.TrimSpace
RECURSIVE TrimSpace(_)
TrimSpace(str) ==
    IF str = <<>> THEN <<>>
    ELSE IF Head(str) \in WhiteSpace THEN TrimSpace(Tail(str))
    ELSE IF str[Len(str)] \in WhiteSpace THEN TrimSpace(SubSeq(str, 1, Len(str) - 1))
    ELSE str

NoErr == ""

\* &ToolResult{ForLLM: forLLM}: every other field has its zero value
NewToolResult(forLLM) ==
    [ForLLM |-> forLLM, ForUser |-> <<>>, Silent |-> FALSE, IsError |-> FALSE, Async |-> FALSE,
     Err |-> NoErr, Ephemeral |-> FALSE]

ErrorResult(message) ==
    [ForLLM |-> message, ForUser |-> <<>>, Silent |-> FALSE, IsError |-> TRUE, Async |-> FALSE,
     Err |-> NoErr, Ephemeral |-> FALSE]

\* a faulty WithError: the error is not recorded
WithErrorDropped(tr, err) == tr

WithError(tr, err) == [tr EXCEPT !.Err = err]

\* the closure NewAgentInstance registers: LoadChunk, then formatChunkTranscript
retrieveFn(fs, id) ==
    LET got == loadChunkLocked(fs, id)
    IN  IF got.err # "" THEN [transcript |-> <<>>, err |-> got.err]
        ELSE [transcript |-> formatChunkTranscript(got.record), err |-> NoErr]

\* the values args["chunk_id"] is tried with: absent, not a string, strings
ArgMissing == [type |-> "missing", s |-> <<>>]

ArgNumber == [type |-> "number", s |-> <<>>]

ArgString(str) == [type |-> "string", s |-> str]

ToolArgs ==
    {ArgMissing, ArgNumber, ArgString(<<>>), ArgString(<<" ">>), ArgString(<<"\t", "\n">>)}
        \cup {ArgString(id) : id \in ChunkIDs}
        \cup {ArgString(<<" ">> \o id \o <<" ">>) : id \in ChunkIDs}

\* a faulty ChunkIDArg: the string is not trimmed
ChunkIDArgUntrimmed(arg) == IF arg.type = "string" THEN arg.s ELSE <<>>

\* chunkID, _ := args["chunk_id"].(string); chunkID = strings.TrimSpace(chunkID)
ChunkIDArg(arg) == TrimSpace(IF arg.type = "string" THEN arg.s ELSE <<>>)

\* the result of RetrieveChunkTool.Execute on the directory fs
ExecuteResult(fs, arg) ==
    LET chunkID == ChunkIDArg(arg)
        got == retrieveFn(fs, chunkID)
    IN  IF chunkID = <<>>
        THEN WithError(ErrorResult(<<"chunk_id is required">>), "missing chunk_id")
        ELSE IF got.err # NoErr
        THEN WithError(ErrorResult(<<"c", "h", "u", "n", "k", " ">> \o chunkID
                                       \o <<" not found: ", got.err>>), got.err)
        ELSE NewToolResult(got.transcript)

\* the calls of t.retrieveFn that Execute makes on the directory fs: none
\* when it returns at line 47, else the one of line 50
ExecuteCalls(fs, arg) ==
    LET chunkID == ChunkIDArg(arg)
    IN  IF chunkID = <<>> THEN <<>>
        ELSE <<[id |-> chunkID, err |-> retrieveFn(fs, chunkID).err]>>

\* RetrieveChunkTool.Execute; the tool is registered only when the agent has
\* an archive
Execute(p) ==
    /\ coldStorage
    /\ Start(p)
    /\ mu = 0
    /\ \E arg \in ToolArgs :
          LET result == ExecuteResult(files, arg)
          IN  /\ Finish(p, Return(p, "Execute", arg, result.Err, result))
              /\ fnCalls' = ExecuteCalls(files, arg)
    /\ UNCHANGED <<dirVars, indexVars, saveVars, entries, restartsLeft, archived, issued, rebuilt,
                   coldStorage, toolsRegistry, history, rollingSummary, turn, added, out, clock>>

\* One goroutine archives chunks and runs the tool
ToolNext ==
    \/ SaveChunkCall(1, IndexRecords)
    \/ SaveChunkWrite(1)
    \/ SaveChunkRename(1)
    \/ SaveChunkIndex(1)
    \/ Execute(1)

ToolSpec == Init /\ [][ToolNext]_vars

\* The tool runs over a directory the archive did not write alone
RetrieveNext == Execute(1) \/ NewColdStorage

RetrieveSpec == RebuildInit /\ [][RetrieveNext]_vars

\* The three read operations, over a directory the archive did not write alone
ReadNext ==
    \/ LoadChunkLock(1)
    \/ LoadChunk(1)
    \/ ListRefs(1)
    \/ Execute(1)
    \/ NewColdStorage

ReadSpec == RebuildInit /\ [][ReadNext]_vars

\* NewAgentInstance, lines 54-79 and 121-140: NewColdStorage, whose only
\* error is that of os.MkdirAll, then the registry, then the agent; with
\* the error the agent has no archive
NewAgentInstance ==
    /\ restartsLeft > 0
    /\ restartsLeft' = restartsLeft - 1
    /\ \E csErr \in {"", "create dir"} :
          LET cs == csErr = ""
              index == IF cs
                       THEN IndexAll([counters |-> EmptyCounters, refs |-> EmptyRefs],
                                     files, ReadDir(files, tmpFiles))
                       ELSE [counters |-> EmptyCounters, refs |-> EmptyRefs]
          IN  /\ counters' = index.counters
              /\ refs' = index.refs
              /\ coldStorage' = cs
              /\ toolsRegistry' = Registered(cs)
    /\ mu' = 0
    /\ pc' = [p \in Procs |-> "idle"]
    /\ rec' = [p \in Procs |-> NoRecord]
    /\ tmpPath' = [p \in Procs |-> 0]
    /\ entries' = [p \in Procs |-> <<>>]
    /\ ret' = NoReturn
    /\ archived' = EmptyRefs
    /\ issued' = NoneIssued(counters')
    /\ rebuilt' = FALSE
    /\ writer' = NoWriter
    /\ UNCHANGED <<dirVars, opsLeft, history, rollingSummary, turn, added, out, fnCalls, clock>>

\* No agent is built yet, over a directory that may hold anything
InstanceInit ==
    /\ files \in [ChunkIDs -> DirContents]
    /\ tmpFiles \in SUBSET {1}
    /\ counters = EmptyCounters
    /\ refs = EmptyRefs
    /\ mu = 0
    /\ pc = [p \in Procs |-> "idle"]
    /\ rec = [p \in Procs |-> NoRecord]
    /\ tmpPath = [p \in Procs |-> 0]
    /\ entries = [p \in Procs |-> <<>>]
    /\ ret = NoReturn
    /\ opsLeft = MaxOps
    /\ restartsLeft = MaxRestarts
    /\ archived = EmptyRefs
    /\ issued = NoneIssued(EmptyCounters)
    /\ rebuilt = FALSE
    /\ writer = NoWriter
    /\ coldStorage = FALSE
    /\ toolsRegistry = {}
    /\ history = <<>>
    /\ rollingSummary = <<>>
    /\ turn = NoTurn
    /\ added = <<>>
    /\ out = NoOut
    /\ fnCalls = <<>>
    /\ clock = 0

\* Agents are built, and the tool of an agent that has it is called
InstanceNext == NewAgentInstance \/ Execute(1)

InstanceSpec == InstanceInit /\ [][InstanceNext]_vars

\* ------------------------------------------------------------------
\* A turn of the agent loop and the compression policy.  The loop and the
\* session store are not among the sources; their steps follow the
\* specification's sections 4.3 and 4.4 and the rolling-summary tests.
\* ------------------------------------------------------------------

\* the session the turns are driven on
TurnSession == SessionSeq[1]

\* what the user sends: a short message, and one long enough to put two
\* messages over chunk_size_tokens
UserContents == {<<"T">>, <<"T", "r", "i", "g", "g", "e", "r", "!">>}

\* what the main LLM call adds to the history: a reply, or a tool call, its
\* result (text, or output that is not valid UTF-8) and a reply
Replies ==
    {<<Msg(RoleAssistant, <<"O", "k">>)>>,
     <<Msg(RoleAssistant, <<>>), Msg(RoleTool, <<"r", "e", "s">>), Msg(RoleAssistant, <<"O", "k">>)>>,
     <<Msg(RoleAssistant, <<>>), Msg(RoleTool, <<"r", BadByte>>), Msg(RoleAssistant, <<"O", "k">>)>>}

RECURSIVE CharCount(_)
CharCount(msgs) == IF msgs = <<>> THEN 0 ELSE Len(Head(msgs).Content) + CharCount(Tail(msgs))

\* the token estimate: characters / 4
EstimateTokens(msgs) == CharCount(msgs) \div 4

\* a faulty Triggered: the number of messages is not looked at
TriggeredByTokens(msgs) == EstimateTokens(msgs) > ChunkSizeTokens

\* the policy runs when the estimate exceeds chunk_size_tokens and at least
\* min_chunk_messages + continuity_buffer messages exist
Triggered(msgs) ==
    /\ EstimateTokens(msgs) > ChunkSizeTokens
    /\ Len(msgs) >= MinChunkMessages + ContinuityBuffer

\* the length of the selected prefix: continuity_buffer messages stay
SelectEnd(msgs) == Len(msgs) - ContinuityBuffer

\* a faulty ArchiveConfigured: the commit does not look at the archive
ArchiveAssumed(cs) == TRUE

\* the commit needs an archive: archive == null inhibits it
ArchiveConfigured(cs) == cs

\* now: the wall clock read as a time
ClockTime(c) == [NowTime EXCEPT !.minute = c]

\* the record the policy archives
CompressionRecord(id, msgs, end, summary) ==
    [ID |-> id, SessionKey |-> TurnSession, MsgRange |-> <<0, end>>,
     CreatedAt |-> ClockTime(clock),
     Summary |-> summary, Messages |-> SubSeq(msgs, 1, end)]

\* the entry of the rolling summary: "[YYYY-MM-DD HH:MM]\n<summary>"
SummaryEntry(t, summary) == <<"[">> \o FormatTime(t) \o <<"]", "\n">> \o summary

\* a faulty AppendRollingSummary: the entry is put in front
PrependRollingSummary(old, entry) ==
    IF old = <<>> THEN entry ELSE entry \o <<"\n", "\n">> \o old

\* append_rolling_summary: a blank line and the entry, or the entry alone
AppendRollingSummary(old, entry) ==
    IF old = <<>> THEN entry ELSE old \o <<"\n", "\n">> \o entry

\* truncate_front
TruncateFront(msgs, k) == SubSeq(msgs, k + 1, Len(msgs))

\* what a failed attempt must leave as it was
Snapshot ==
    [history |-> history, rollingSummary |-> rollingSummary, files |-> files,
     tmpFiles |-> tmpFiles, refs |-> refs]

archiveVars ==
    <<files, tmpFiles, counters, refs, mu, pc, rec, tmpPath, entries, ret, opsLeft,
      restartsLeft, archived, issued, rebuilt, writer>>

\* a turn begins: the user message and what the main LLM call produces are
\* added to the history
TurnBegin ==
    /\ turn.pc = "idle"
    /\ turn.turns < MaxTurns
    /\ \E content \in UserContents, reply \in Replies :
          /\ history' = history \o <<Msg(RoleUser, content)>> \o reply
          /\ added' = added \o <<Msg(RoleUser, content)>> \o reply
    /\ turn' = [turn EXCEPT !.pc = "compress", !.turns = @ + 1, !.cause = "", !.err = ""]
    /\ clock' \in {clock, clock + 1}
    /\ UNCHANGED <<archiveVars, coldStorage, toolsRegistry, rollingSummary, out, fnCalls>>

\* the policy is consulted: nothing to do, or a prefix is selected
TurnCompress ==
    /\ turn.pc = "compress"
    /\ IF Triggered(history)
       THEN turn' = [turn EXCEPT !.pc = "summarize", !.end = SelectEnd(history),
                                 !.before = Snapshot]
       ELSE turn' = [turn EXCEPT !.pc = "idle"]
    /\ UNCHANGED <<archiveVars, coldStorage, toolsRegistry, history, rollingSummary, added, out, fnCalls, clock>>

\* the provider's Chat returns a summary, or fails, or is cancelled
TurnSummarize ==
    /\ turn.pc = "summarize"
    /\ \/ \E summary \in IndexSummaries :
             turn' = [turn EXCEPT !.pc = IF ArchiveConfigured(coldStorage) THEN "archive"
                                         ELSE "idle",
                                  !.summary = summary, !.n = ret.n]
       \/ turn' = [turn EXCEPT !.pc = "failed", !.cause = "provider"]
    /\ UNCHANGED <<archiveVars, coldStorage, toolsRegistry, history, rollingSummary, added, out, fnCalls, clock>>

\* commit, step 1: next_id
TurnNextID ==
    /\ turn.pc = "archive"
    /\ ret.n = turn.n
    /\ NextChunkID(1, TurnSession)

\* commit, step 2: the chunk is archived under the ID just returned
TurnSaveChunk ==
    /\ turn.pc = "archive"
    /\ ret.n = turn.n + 1
    /\ SaveChunkCall(1, {CompressionRecord(ret.val, history, turn.end, turn.summary)})

\* commit, step 4: SaveChunk returned; on nil the entry is appended to the
\* rolling summary, on an error the attempt has failed
TurnCommit ==
    /\ turn.pc = "archive"
    /\ ret.n = turn.n + 2
    /\ pc[1] = "idle"
    /\ IF ret.err = NoErr
       THEN /\ rollingSummary' = AppendRollingSummary(rollingSummary,
                                                      SummaryEntry(ClockTime(clock), turn.summary))
            /\ turn' = [turn EXCEPT !.pc = "truncate"]
       ELSE /\ turn' = [turn EXCEPT !.pc = "failed", !.cause = "archive"]
            /\ UNCHANGED rollingSummary
    /\ UNCHANGED <<archiveVars, coldStorage, toolsRegistry, history, added, out, fnCalls, clock>>

\* commit, step 5: the selected prefix leaves the history
TurnTruncate ==
    /\ turn.pc = "truncate"
    /\ history' = TruncateFront(history, turn.end)
    /\ turn' = [turn EXCEPT !.pc = "idle"]
    /\ UNCHANGED <<archiveVars, coldStorage, toolsRegistry, rollingSummary, added, out, fnCalls, clock>>

\* a faulty TurnFailed: the failure is returned to the caller of the turn
TurnFailedPropagates ==
    /\ turn.pc = "failed"
    /\ turn' = [turn EXCEPT !.pc = "idle", !.err = turn.cause]
    /\ UNCHANGED <<archiveVars, coldStorage, toolsRegistry, history, rollingSummary, added, out, fnCalls, clock>>

\* the failure is logged and swallowed: the turn returns no error
TurnFailed ==
    /\ turn.pc = "failed"
    /\ turn' = [turn EXCEPT !.pc = "idle", !.err = ""]
    /\ UNCHANGED <<archiveVars, coldStorage, toolsRegistry, history, rollingSummary, added, out, fnCalls, clock>>

\* an agent with or without an archive (NewAgentInstance keeps nil when
\* NewColdStorage fails)
TurnInit ==
    /\ files = [id \in ChunkIDs |-> NoFile]
    /\ tmpFiles = {}
    /\ counters = EmptyCounters
    /\ refs = EmptyRefs
    /\ mu = 0
    /\ pc = [p \in Procs |-> "idle"]
    /\ rec = [p \in Procs |-> NoRecord]
    /\ tmpPath = [p \in Procs |-> 0]
    /\ entries = [p \in Procs |-> <<>>]
    /\ ret = NoReturn
    /\ opsLeft = 2 * MaxTurns
    /\ restartsLeft = MaxRestarts
    /\ archived = EmptyRefs
    /\ issued = NoneIssued(EmptyCounters)
    /\ rebuilt = FALSE
    /\ writer = NoWriter
    /\ coldStorage \in BOOLEAN
    /\ toolsRegistry = Registered(coldStorage)
    /\ history = <<>>
    /\ rollingSummary = <<>>
    /\ turn = NoTurn
    /\ added = <<>>
    /\ out = NoOut
    /\ fnCalls = <<>>
    /\ clock = 0

TurnNext ==
    \/ TurnBegin
    \/ TurnCompress
    \/ TurnSummarize
    \/ TurnNextID
    \/ TurnSaveChunk
    \/ SaveChunkWrite(1)
    \/ SaveChunkRename(1)
    \/ SaveChunkIndex(1)
    \/ TurnCommit
    \/ TurnTruncate
    \/ TurnFailed

TurnSpec == TurnInit /\ [][TurnNext]_vars

\* ------------------------------------------------------------------
\* Properties
\* ------------------------------------------------------------------

Range(q) == {q[i] : i \in DOMAIN q}

IsSuffix(a, b) == Len(a) <= Len(b) /\ SubSeq(b, Len(b) - Len(a) + 1, Len(b)) = a

Quiescent == \A p \in Procs : pc[p] = "idle"

FileExists(id) == files[id] # NoFile

IndexedIDs == {r.ID : r \in UNION {Range(refs[s]) : s \in Sessions}}

\* every ID occurs at most once in the lists of rs, all sessions together
DistinctIDs(rs) ==
    /\ \A s \in Sessions : \A i, j \in DOMAIN rs[s] : rs[s][i].ID = rs[s][j].ID => i = j
    /\ \A s, t \in Sessions : s # t =>
          {r.ID : r \in Range(rs[s])} \cap {r.ID : r \in Range(rs[t])} = {}

AscendingIDs(q) == \A i, j \in DOMAIN q : i < j => NameLess(q[i].ID, q[j].ID)

\* the refs of the chunk files a session has on disk, in ascending order of ID
RefsOnDisk(s) ==
    LET ids == SortedIDs({id \in ChunkIDs :
                            FileExists(id) /\ Decode(files[id].data).SessionKey = s})
    IN  [i \in 1..Len(ids) |-> [ID |-> ids[i], Summary |-> Decode(files[ids[i]].data).Summary]]

\* C5: after SaveChunk calls only (no RebuildIndex), ListRefs(s) returns one
\* ref per chunk this process archived under s, in the order of archival,
\* after the refs the index held when the process started (none on an empty
\* directory).
C5_ListRefsInArchivalOrder ==
    (pc[1] = "idle" /\ ret.op = "ListRefs" /\ ~rebuilt) =>
        /\ IsSuffix(archived[ret.arg], ret.val.elems)
        /\ restartsLeft = MaxRestarts => ret.val.elems = archived[ret.arg]

\* C5 witness: ListRefs returned two refs archived one after the other
C5_Witness ==
    /\ pc[1] = "idle" /\ ret.op = "ListRefs" /\ ~rebuilt
    /\ Len(ret.val.elems) = 2 /\ ret.val.elems[1] # ret.val.elems[2]
    /\ ret.val.elems = archived[ret.arg]

\* C6: a fresh ColdStorage on a directory written by another instance (which
\* was at rest) lists, for every session, the same set of refs as the writer.
C6_FreshIndexSameRefSet ==
    (writer.live /\ writer.quiet) =>
        \A s \in Sessions : Range(refs[s]) = Range(writer.refs[s])

\* C7 as claimed: a new ColdStorage on the directory lists a session's refs
\* in the order the records (of distinct IDs) were saved.
C7_RebuiltOrderIsSaveOrder ==
    (writer.live /\ writer.quiet /\ writer.plain /\ DistinctIDs(writer.archived)) =>
        \A s \in Sessions : refs[s] = writer.archived[s]

\* C7 as amended: a new ColdStorage lists a session's refs in ascending order
\* of chunk ID, one per chunk file of the session, with the ID and summary
\* the file holds; that is the save order when the records were saved in
\* ascending order of ID.
C7_RebuiltOrderIsIdOrder ==
    writer.live =>
        \A s \in Sessions :
            /\ refs[s] = RefsOnDisk(s)
            /\ (/\ writer.quiet /\ writer.plain /\ DistinctIDs(writer.archived)
                /\ AscendingIDs(writer.archived[s])) => refs[s] = writer.archived[s]

\* C7 witness: two records saved under one session, the larger ID first; the
\* new instance lists them in the other order
C7_Witness ==
    /\ writer.live /\ writer.quiet /\ writer.plain /\ DistinctIDs(writer.archived)
    /\ \E s \in Sessions :
          /\ Len(refs[s]) = 2
          /\ refs[s] = <<writer.archived[s][2], writer.archived[s][1]>>

\* C8: two successive NextChunkID calls on one session return distinct IDs,
\* each of 8 lowercase hexadecimal characters.
C8_SuccessiveIDsDistinct ==
    [][(/\ ret'.n = ret.n + 1
        /\ ret.op = "NextChunkID" /\ ret'.op = "NextChunkID"
        /\ ret'.arg = ret.arg) =>
           /\ ret'.val # ret.val
           /\ Len(ret'.val) = 8
           /\ \A i \in 1..Len(ret'.val) : ret'.val[i] \in Range(HexDigits)]_vars

\* C9: every ref of the index names a chunk file that exists and decodes to
\* a record of the ref's session with the ref's summary.
C9_RefsMatchFiles ==
    \A s \in Sessions : \A i \in DOMAIN refs[s] :
        LET got == loadChunkLocked(files, refs[s][i].ID)
        IN  /\ got.err = ""
            /\ got.record.SessionKey = s
            /\ got.record.Summary = refs[s][i].Summary

ValidUTF8(record) ==
    /\ BadByte \notin Range(record.ID) \cup Range(record.Summary)
    /\ \A i \in DOMAIN record.Messages :
          BadByte \notin Range(record.Messages[i].Role) \cup Range(record.Messages[i].Content)

\* the fields the round trip is stated for (created_at is not among them)
SameFields(a, b) ==
    /\ a.ID = b.ID
    /\ a.SessionKey = b.SessionKey
    /\ a.MsgRange = b.MsgRange
    /\ a.Summary = b.Summary
    /\ a.Messages = b.Messages

\* LoadChunk(r.ID) returns directly after SaveChunk(r) returned nil
LoadFollowsSave ==
    /\ ret'.n = ret.n + 1
    /\ ret.op = "SaveChunk" /\ ret.err = ""
    /\ ret'.op = "LoadChunk" /\ ret'.arg = ret.arg.ID

RetrievedChunk ==
    /\ pc[1] = "idle" /\ ret.op = "Execute"
    /\ ChunkIDArg(ret.arg) \in ChunkIDs
    /\ loadChunkLocked(files, ChunkIDArg(ret.arg)).err = ""

\* C1: whenever Execute is called with the ID of a chunk the retrieval
\* function can load, the result has the rendered transcript as ForLLM, is not
\* an error, and has both Ephemeral and Silent set.
C1_RetrievedIsEphemeralAndSilent ==
    RetrievedChunk =>
        /\ ret.val.ForLLM = formatChunkTranscript(loadChunkLocked(files, ChunkIDArg(ret.arg)).record)
        /\ ~ret.val.IsError
        /\ ret.val.Ephemeral
        /\ ret.val.Silent

\* C2: when a compression attempt has failed (the provider call failed or
\* was cancelled, or the archive write failed), the history, the rolling
\* summary, the storage directory and the index refs are what they were
\* before the attempt.
C2_FailedAttemptChangesNothing ==
    turn.pc = "failed" =>
        /\ history = turn.before.history
        /\ rollingSummary = turn.before.rollingSummary
        /\ files = turn.before.files
        /\ tmpFiles = turn.before.tmpFiles
        /\ refs = turn.before.refs

\* an attempt failed in SaveChunk after the temporary file was created
C2_Witness ==
    /\ turn.pc = "failed"
    /\ ret.op = "SaveChunk" /\ ret.err \in {"write", "rename"}
    /\ ret.n = turn.n + 2
    /\ ret.arg.Messages = SubSeq(history, 1, turn.end)

\* C3: without an archive the rolling summary stays empty and no message
\* leaves the history, whatever the token pressure.
C3_NoArchiveNoCompression ==
    ~coldStorage => (rollingSummary = <<>> /\ history = added)

\* two turns were driven without an archive, the second under token pressure
\* with a prefix to select, and the provider returned a summary
C3_Witness ==
    /\ ~coldStorage
    /\ turn.turns = 2 /\ turn.pc = "idle" /\ turn.summary # <<>> /\ turn.end >= MinChunkMessages
    /\ Triggered(history)

\* the chunk files on disk whose record belongs to session s
ChunksOnDisk(s) ==
    {id \in ChunkIDs : loadChunkLocked(files, id).err = ""
                          /\ loadChunkLocked(files, id).record.SessionKey = s}

\* C11: in every reachable state and for every session s, counters[s] is at
\* least the number of chunk files on disk whose record belongs to s.
C11_CounterCoversChunksOnDisk ==
    \A s \in Sessions : counters[s] >= Cardinality(ChunksOnDisk(s))

\* C12: within one process, no step of NextChunkID, SaveChunk, LoadChunk,
\* ListRefs or RebuildIndex decreases the counter of any session.
C12_CounterNeverDecreases ==
    [][restartsLeft' = restartsLeft => \A s \in Sessions : counters'[s] >= counters[s]]_vars

\* process p leaves the rename of a SaveChunk whose ID names an existing file
RenameOntoExisting(p) ==
    /\ restartsLeft' = restartsLeft
    /\ pc[p] = "save_rename" /\ pc'[p] # "save_rename"
    /\ FileExists(rec[p].ID)

\* C13: a SaveChunk whose ID names an existing chunk file is detected as a
\* collision: the rename fails, SaveChunk returns an error, the existing
\* file is unchanged and no ref is appended.
C13_CollisionDetected ==
    [][\A p \in Procs : RenameOntoExisting(p) =>
           /\ pc'[p] = "idle" /\ ret'.op = "SaveChunk" /\ ret'.err # ""
           /\ files' = files
           /\ refs' = refs]_vars

\* C14: a committed chunk file is never changed or removed by a later
\* operation, so LoadChunk(id) keeps returning the record first saved.
C14_CommittedChunkImmutable ==
    [][\A id \in ChunkIDs : FileExists(id) => files'[id] = files[id]]_vars

\* SaveChunk returns an error to process p
FailedSave(p) ==
    /\ ret'.n = ret.n + 1 /\ ret'.p = p
    /\ ret'.op = "SaveChunk" /\ ret'.err # ""

\* C15: every step of a SaveChunk up to a failure (of marshal, temp-file
\* creation, write, close, sync or rename) leaves the chunk files, the refs
\* and the counters as they were, and the failing step returns an error with
\* the temporary file of the call removed.
C15_FailedSaveLeavesNoTrace ==
    [][/\ (pc'[1] \in {"save_write", "save_rename"} \/ FailedSave(1)) =>
              (files' = files /\ refs' = refs /\ counters' = counters)
       /\ FailedSave(1) =>
              /\ pc'[1] = "idle"
              /\ tmpFiles' = tmpFiles \ {tmpPath[1]}
              /\ tmpFiles' = {}]_vars

\* a SaveChunk failed at the rename: no temporary file and no chunk file
C15_Witness ==
    /\ pc[1] = "idle" /\ ret.op = "SaveChunk" /\ ret.err = "rename"
    /\ tmpFiles = {}
    /\ ~FileExists(ret.arg.ID)
    /\ ret.arg.Messages = ToolMessages

\* the files of the directory that load as chunks of session s
LoadableIDs(s) ==
    {id \in ChunkIDs : /\ files[id] # SubDir
                       /\ loadChunkLocked(files, id).err = ""
                       /\ loadChunkLocked(files, id).record.SessionKey = s}

\* the refs of these files, in file-name order, taken from the decoded records
LoadableRefs(s) ==
    LET ids == SortedIDs(LoadableIDs(s))
    IN  [i \in 1..Len(ids) |->
            ChunkRef(loadChunkLocked(files, ids[i]).record.ID,
                     loadChunkLocked(files, ids[i]).record.Summary)]

\* the directory holds an entry that RebuildIndex has to pass over
HasSkippedEntry ==
    \/ tmpFiles # {}
    \/ \E id \in ChunkIDs : files[id] \in {NotGzip, NotJSON, Unreadable, SubDir}

\* C16: RebuildIndex passes over sub-directories, entries without the
\* .json.gz suffix and files that fail to load; it returns no error for
\* them, and the index it leaves holds exactly the chunks that do load
C16_RebuildSkipsUnloadable ==
    mu = 0 =>
        /\ ret.op = "RebuildIndex" => ret.err = ""
        /\ \A s \in Sessions :
              /\ refs[s] = LoadableRefs(s)
              /\ counters[s] = Len(LoadableRefs(s))

\* RebuildIndex returned over a directory with a left-over temporary file,
\* an unloadable file and a chunk that loads and is indexed
C16_Witness ==
    /\ ret.op = "RebuildIndex"
    /\ pc[1] = "idle"
    /\ tmpFiles # {}
    /\ \E id \in ChunkIDs : files[id] \in {NotGzip, NotJSON, Unreadable, SubDir}
    /\ \E s \in Sessions : Len(refs[s]) = 1 /\ counters[s] = 1

\* C17: RebuildIndex called again over an unchanged directory leaves the
\* counters and the refs exactly as the call before it left them
C17_RebuildIdempotent ==
    [][(ret.op = "RebuildIndex" /\ ret'.op = "RebuildIndex" /\ ret'.n = ret.n + 1) =>
          /\ counters' = ret.val.counters
          /\ refs' = ret.val.refs
          /\ ret'.val = ret.val]_vars

\* the second of two RebuildIndex calls returned, over a directory with
\* chunks to index and an entry to pass over
C17_Witness ==
    /\ ret.op = "RebuildIndex"
    /\ ret.n = 2
    /\ pc[1] = "idle"
    /\ HasSkippedEntry
    /\ \E s \in Sessions : Len(refs[s]) = 2

\* what ListRefs(s) returns when called now
ListRefsNow(s) == CopyOut(refs[s])

\* the caller writes to the list it keeps
CallerWrites == out' # out /\ ret' = ret /\ out.session # ""

\* C18: a write by the caller to a list ListRefs returned (an element
\* overwritten, an element appended) changes what ListRefs returns for no
\* session, and a SaveChunk changes no list already returned
C18_ListRefsReturnsCopy ==
    [][/\ CallerWrites => \A s \in Sessions : ListRefsNow(s)' = ListRefsNow(s)
       /\ refs' # refs => out' = out]_vars

\* the caller overwrote an element of a list ListRefs returned while the
\* index holds the refs of both sessions, untouched
C18_Witness ==
    /\ out.slice.arr = "out"
    /\ CallerRef \in Range(out.slice.elems)
    /\ \A s \in Sessions : refs[s] # <<>> /\ refs[s] = archived[s]

\* args["chunk_id"] is absent, not a string, empty or only whitespace
Blank(arg) == arg.type # "string" \/ \A i \in 1..Len(arg.s) : arg.s[i] \in WhiteSpace

\* C19: Execute called with chunk_id missing, not a string, empty or only
\* whitespace returns an error result whose text is "chunk_id is
\* required", and does not call the retrieval function
C19_BlankChunkIDRejected ==
    (ret.op = "Execute" /\ Blank(ret.arg)) =>
        /\ ret.val.IsError
        /\ ret.val.ForLLM = <<"chunk_id is required">>
        /\ fnCalls = <<>>

\* Execute returned for a chunk_id of whitespace only while a chunk was
\* in the archive
C19_Witness ==
    /\ ret.op = "Execute"
    /\ ret.arg = ArgString(<<"\t", "\n">>)
    /\ ret.val.IsError
    /\ \E id \in ChunkIDs : FileExists(id)

\* sub occurs in text
Contains(text, sub) ==
    \E i \in 1..(Len(text) - Len(sub) + 1) : SubSeq(text, i, i + Len(sub) - 1) = sub

\* the transcripts of the chunks that load from the directory
Transcripts ==
    {formatChunkTranscript(loadChunkLocked(files, id).record) :
        id \in {c \in ChunkIDs : loadChunkLocked(files, c).err = ""}}

\* the last Execute called the retrieval function, which returned an error
RetrievalFailed ==
    /\ ret.op = "Execute"
    /\ pc[1] = "idle"
    /\ Len(fnCalls) = 1
    /\ fnCalls[1].err # NoErr

\* C20: when the retrieval function returns an error for a non-empty
\* trimmed chunk_id, Execute returns an error result with Err set to that
\* error, whose text names the requested chunk ID and is no transcript
C20_RetrievalErrorReported ==
    RetrievalFailed =>
        /\ ret.val.IsError
        /\ ret.val.Err = fnCalls[1].err
        /\ fnCalls[1].id = TrimSpace(ret.arg.s)
        /\ Contains(ret.val.ForLLM, fnCalls[1].id)
        /\ ret.val.ForLLM \notin Transcripts
        /\ ret.val.ForUser = <<>>

\* Execute asked, with blanks around the ID, for a file that is not a
\* chunk while another chunk loads
C20_Witness ==
    /\ RetrievalFailed
    /\ ret.arg.s # fnCalls[1].id
    /\ fnCalls[1].err = "decode"
    /\ Transcripts # {}

\* a call of one of the read operations returns
RetrievalReturns ==
    /\ ret'.n = ret.n + 1
    /\ ret'.op \in {"Execute", "LoadChunk", "ListRefs"}

\* C21: Execute, LoadChunk and ListRefs, whether they succeed or fail,
\* leave the storage directory, the counters and the refs as they were
C21_RetrievalMutatesNothing ==
    [][RetrievalReturns =>
          /\ files' = files
          /\ tmpFiles' = tmpFiles
          /\ counters' = counters
          /\ refs' = refs]_vars

\* a third retrieval, a LoadChunk that failed on a file that is there,
\* returned while the index holds a ref and the file is still there
C21_Witness ==
    /\ ret.op = "LoadChunk"
    /\ ret.n = 3
    /\ ret.err \in {"gzip reader", "decode"}
    /\ files[ret.arg] # NoFile
    /\ \E s \in Sessions : refs[s] # <<>>

\* a is a prefix of b
IsPrefix(a, b) == Len(a) <= Len(b) /\ SubSeq(b, 1, Len(a)) = a

\* where the blank lines of a text start
BlankLines(str) ==
    {i \in 1..(Len(str) - 1) : str[i] = "\n" /\ str[i + 1] = "\n"}

\* the entries of a rolling summary: what its blank lines separate
SplitEntries(str) ==
    LET breaks == BlankLines(str)
        starts == {1} \cup {i + 2 : i \in breaks}
        nth(k) == CHOOSE b \in starts : Cardinality({c \in starts : c < b}) = k - 1
        endOf(b) == IF \E c \in breaks : c >= b
                    THEN (CHOOSE c \in breaks :
                              c >= b /\ \A d \in breaks : d >= b => c <= d) - 1
                    ELSE Len(str)
    IN  IF str = <<>> THEN <<>>
        ELSE [k \in 1..Cardinality(starts) |-> SubSeq(str, nth(k), endOf(nth(k)))]

\* the timestamp of an entry "[YYYY-MM-DD HH:MM]\n<summary>", and its summary
EntryStamp(e) == SubSeq(e, 2, 17)

EntrySummary(e) == SubSeq(e, 20, Len(e))

\* an entry has a timestamp line and a summary, and no line feed at its ends
WellFormedEntry(e) ==
    /\ Len(e) > 19
    /\ e[1] = "[" /\ e[18] = "]" /\ e[19] = "\n"
    /\ \E c \in 0..clock : EntryStamp(e) = FormatTime(ClockTime(c))
    /\ e[20] # "\n" /\ e[Len(e)] # "\n"

\* timestamps of the same width compare as their digits do
StampLeq(a, b) == a = b \/ NameLess(a, b)

\* the entries are well formed and their timestamps never decrease
Chronological(str) ==
    LET es == SplitEntries(str)
    IN  /\ \A i \in 1..Len(es) : WellFormedEntry(es[i])
        /\ \A i, j \in 1..Len(es) : i < j => StampLeq(EntryStamp(es[i]), EntryStamp(es[j]))

AttemptsEnded == turn.pc \notin {"archive", "truncate"}

CompressionCommits == turn.pc = "truncate" /\ turn'.pc = "idle"

\* the messages the compression selected, and those of the chunk it archived
SelectedMessages == SubSeq(history, 1, turn.end)

ArchivedMessages == loadChunkLocked(files, ret.arg.ID).record.Messages

ConsultedOnShortHistory ==
    /\ turn.pc = "compress"
    /\ turn'.pc # "compress"
    /\ Len(history) < MinChunkMessages + ContinuityBuffer

\* the last continuity_buffer messages of a history
ContinuityTail(msgs) == SubSeq(msgs, Len(msgs) - ContinuityBuffer + 1, Len(msgs))

\* C25: on a history of fewer than min_chunk_messages + continuity_buffer
\* messages the policy ends at once without failing, whatever the token
\* estimate: the provider is not called, nothing is archived, history and
\* rolling summary stay; and a compression that commits leaves the last
\* continuity_buffer messages in the history
C25_ShortHistoryIsNoOp ==
    [][/\ ConsultedOnShortHistory =>
             /\ turn'.pc = "idle"
             /\ UNCHANGED <<history, rollingSummary, files, tmpFiles, refs, counters, ret>>
       /\ CompressionCommits =>
             /\ Len(history') >= ContinuityBuffer
             /\ ContinuityTail(history') = ContinuityTail(history)]_vars

\* a turn ended without compression on two messages whose token estimate
\* exceeds chunk_size_tokens, the archive being configured and empty
C25_Witness ==
    /\ coldStorage
    /\ turn.pc = "idle" /\ turn.turns = 1
    /\ Len(history) = 2
    /\ EstimateTokens(history) > ChunkSizeTokens
    /\ rollingSummary = <<>>
    /\ ret = NoReturn

\* C26: a compression that failed, in the provider call or in the
\* archive, ends the turn without an error for its caller and with the
\* history and the rolling summary it started with
C26_FailureIsSwallowed ==
    [][turn.pc = "failed" =>
          /\ turn'.pc = "idle"
          /\ turn'.err = NoErr
          /\ history' = turn.before.history
          /\ rollingSummary' = turn.before.rollingSummary]_vars

\* a turn under token pressure ended after the provider failed to
\* summarize, nothing having been compressed before
C26_Witness ==
    /\ turn.pc = "idle"
    /\ turn.cause = "provider"
    /\ turn.err = NoErr
    /\ coldStorage
    /\ Triggered(history)
    /\ history = added

\* the em dash, U+2014
EmDash == <<"u2014">>

\* the header line the format gives for a record
ExpectedHeader(record) ==
    <<"[", "A", "r", "c", "h", "i", "v", "e", "d", " ", "c", "h", "u", "n", "k", " ">>
        \o record.ID \o <<" ">> \o EmDash \o <<" ">> \o FormatTime(record.CreatedAt) \o <<"]">>

\* the entries the format gives for a record: "<role>: <content>" per message
ExpectedEntries(record) ==
    [i \in 1..Len(record.Messages) |->
        record.Messages[i].Role \o <<":", " ">> \o record.Messages[i].Content]

\* C27: the transcript of a record is the header line "[Archived chunk
\* <id> <em dash> <YYYY-MM-DD HH:MM>]", a blank line, and one "<role>:
\* <content>" entry per message in record order, the entries separated
\* by one blank line
C27_TranscriptFormat ==
    RetrievedChunk =>
        LET record == loadChunkLocked(files, ChunkIDArg(ret.arg)).record
            text == ret.val.ForLLM
            head == ExpectedHeader(record) \o <<"\n", "\n">>
        IN  /\ IsPrefix(head, text)
            /\ SplitEntries(SubSeq(text, Len(head) + 1, Len(text))) = ExpectedEntries(record)

\* the refs of the session and the entries of its rolling summary
SessionRefs == refs[TurnSession]

SummaryEntries == SplitEntries(rollingSummary)

\* C28: in a commit the chunk file is renamed into place, then the ref
\* is appended, then the rolling-summary entry, and the history is
\* truncated after both: each step finds the earlier ones done and
\* leaves the later ones undone, and whenever messages have left the
\* history the ref and the entry of their range are there
C28_CommitOrder ==
    [][/\ files' # files =>
             UNCHANGED <<refs, rollingSummary, history>>
       /\ refs' # refs =>
             /\ FileExists(SessionRefs'[Len(SessionRefs')].ID)
             /\ Len(SessionRefs') = Len(SummaryEntries) + 1
             /\ UNCHANGED <<files, rollingSummary, history>>
       /\ rollingSummary' # rollingSummary =>
             /\ Len(SummaryEntries') = Len(SessionRefs)
             /\ EntrySummary(SummaryEntries'[Len(SummaryEntries')])
                    = SessionRefs[Len(SessionRefs)].Summary
             /\ UNCHANGED <<files, refs, history>>
       /\ Len(history') < Len(history) =>
             /\ Len(SummaryEntries) = Len(SessionRefs)
             /\ Len(SessionRefs) = Len(turn.before.refs[TurnSession]) + 1
             /\ rollingSummary # turn.before.rollingSummary
             /\ UNCHANGED <<files, refs, rollingSummary>>
       /\ Len(history') < Len(added') =>
             (refs'[TurnSession] # <<>> /\ rollingSummary' # <<>>)]_vars

\* a second commit has appended its ref and its entry and is about to
\* truncate the history
C28_Witness ==
    /\ turn.pc = "truncate"
    /\ Len(SessionRefs) = 2
    /\ Len(SummaryEntries) = 2
    /\ history = turn.before.history
    /\ Len(history) < Len(added)


\* C29: when the process stops after SaveChunk's rename and before the
\* ref is appended, the index built at the next start has a ref for the
\* chunk: ListRefs shows it for the record's session and LoadChunk
\* loads it by its ID
C29_CrashAfterRenameRecovered ==
    writer.live =>
        \A r \in writer.pending :
            /\ \E i \in DOMAIN ListRefsNow(r.SessionKey).elems :
                   ListRefsNow(r.SessionKey).elems[i].ID = r.ID
            /\ loadChunkLocked(files, r.ID).err = ""

\* C30: the mutex of the index is not held by a call whose next step
\* reads or writes a file, RebuildIndex apart: SaveChunk writes and
\* renames, and LoadChunk reads, without it
C30_NoFileIOUnderMutex ==
    \A p \in Procs : pc[p] \in {"save_write", "save_rename", "load"} => mu # p


\* how often the chunk id is listed for session s
TimesListed(s, id) == Cardinality({i \in DOMAIN refs[s] : refs[s][i].ID = id})

\* C31: RebuildIndex may run while SaveChunk calls are under way: once
\* every call has returned, each chunk this process saved (no ID twice,
\* into a directory that was empty) is listed exactly once for its session
C31_RebuildWhileSaving ==
    (Quiescent /\ rebuilt /\ restartsLeft = MaxRestarts /\ DistinctIDs(archived)) =>
        \A s \in Sessions : \A i \in DOMAIN archived[s] :
            TimesListed(s, archived[s][i].ID) = 1


\* no RebuildIndex is under way
NotRebuilding == \A p \in Procs : pc[p] # "rebuild"

AgentBuilt == BaseTools \subseteq toolsRegistry

\* C33: every agent NewAgentInstance builds has retrieve_chunk in its
\* registry exactly if its ColdStorage is not nil, and NewAgentInstance
\* builds an agent also when the cold storage cannot be created
C33_RetrieveChunkIffColdStorage ==
    [][/\ restartsLeft' < restartsLeft => AgentBuilt'
       /\ AgentBuilt' => (RetrieveChunkName \in toolsRegistry' <=> coldStorage')]_vars

\* an agent was built whose cold storage could not be created
C33_Witness ==
    /\ AgentBuilt
    /\ ~coldStorage
    /\ RetrieveChunkName \notin toolsRegistry
    /\ restartsLeft < MaxRestarts

====
